---------------------------- MODULE Spec2Model ----------------------------
(***************************************************************************)
(* Model of the movie dashboard: src/src/App.jsx, src/src/GenreFilter.jsx. *)
(*                                                                         *)
(* The App component is a state machine: its useState cells and the two    *)
(* useQuery results are the state, every event handler (and every fetch    *)
(* completion delivered by the query library) is an action, and each       *)
(* action ends with the re-render that recomputes the derived lists        *)
(* (filteredMovies, sortedMovies, searchedMovies, genreRatings) and the    *)
(* element tree that is returned.                                          *)
(*                                                                         *)
(* JavaScript strings are sequences of one-character strings, a CJK        *)
(* character being written by its code point ("U+96FB"); ratings are       *)
(* tenths of a point (7.0 is 70) and a quotient is kept as an exact        *)
(* fraction [num, den].                                                    *)
(*                                                                         *)
(* The parts of App that do not touch each other are run apart:            *)
(*   Spec            fetches, refetches, language and preferences, against *)
(*                   the Scenarios;                                        *)
(*   PipelineSpec    the view pipeline on every remote content within the  *)
(*                   bounds;                                               *)
(*   YearSortSpec    the sort stage on lists with movies that lack a       *)
(*                   release_date;                                         *)
(*   PersistSpec     theme, language and localStorage across page loads;   *)
(*   ResizeSpec      the debounced resize handler in time steps of Step    *)
(*                   ms, FairResizeSpec the same under an event loop that  *)
(*                   lets time pass and runs the timers that are due.      *)
(***************************************************************************)
EXTENDS Integers, Sequences, FiniteSets

\* ------------------------------------------------------------------ bounds

\* Longest movie list the remote returns in the model.
MaxMovies == 3

\* Longest genre list the remote returns in the model.
MaxGenres == 3

\* ------------------------------------------------------- JavaScript strings

\* String.prototype.toLowerCase on one character: cased Latin letters are
\* lowered, digits and CJK characters are returned unchanged.
LowerChar(c) ==
    CASE c = "A" -> "a"
      [] c = "E" -> "e"
      [] c = "L" -> "l"
      [] c = "Z" -> "z"
      [] OTHER -> c

\* String.prototype.toLowerCase.
ToLowerCase(s) == [i \in 1..Len(s) |-> LowerChar(s[i])]

\* String.prototype.includes: q occurs in s as a contiguous substring.
StrIncludes(s, q) ==
    \E i \in 0..(Len(s) - Len(q)) : SubSeq(s, i + 1, i + Len(q)) = q

\* Primary collation weight of a character (root collation order: digits
\* before Latin letters before CJK ideographs; case does not count).
Primary(c) ==
    CASE c = "0" -> 0
      [] c = "1" -> 1
      [] c = "2" -> 2
      [] c = "9" -> 9
      [] c \in {"a", "A"} -> 10
      [] c \in {"e", "E"} -> 11
      [] c \in {"l", "L"} -> 12
      [] c \in {"z", "Z"} -> 13
      [] c = "U+5F71" -> 20
      [] c = "U+96FB" -> 21
      [] OTHER -> 30

\* Tertiary collation weight: lower case sorts before upper case.
Tertiary(c) == IF c \in {"A", "E", "L", "Z"} THEN 1 ELSE 0

\* Lexicographic three-way comparison of two sequences of integers.
RECURSIVE LexCompare(_, _)
LexCompare(u, v) ==
    IF u = <<>> /\ v = <<>> THEN 0
    ELSE IF u = <<>> THEN -1
    ELSE IF v = <<>> THEN 1
    ELSE IF Head(u) < Head(v) THEN -1
    ELSE IF Head(u) > Head(v) THEN 1
    ELSE LexCompare(Tail(u), Tail(v))

\* String.prototype.localeCompare: the letters decide first, the case of
\* the letters only between strings with the same letters.
LocaleCompare(a, b) ==
    LET pa == [i \in 1..Len(a) |-> Primary(a[i])]
        pb == [i \in 1..Len(b) |-> Primary(b[i])]
        ta == [i \in 1..Len(a) |-> Tertiary(a[i])]
        tb == [i \in 1..Len(b) |-> Tertiary(b[i])]
        p  == LexCompare(pa, pb)
    IN  IF p # 0 THEN p ELSE LexCompare(ta, tb)

\* The value parseInt returns for a string that does not start with a digit.
NaN == -1

Digits == <<"0", "1", "2", "3", "4", "5", "6", "7", "8", "9">>

IsDigit(c) == \E d \in 1..10 : Digits[d] = c

DigitValue(c) == (CHOOSE d \in 1..10 : Digits[d] = c) - 1

\* Number.prototype.toString for a non-negative integer.
RECURSIVE NumberToString(_)
NumberToString(n) ==
    IF n < 10 THEN <<Digits[n + 1]>>
    ELSE Append(NumberToString(n \div 10), Digits[(n % 10) + 1])

\* The value of the longest prefix of digits of s, read left to right with
\* acc the value of the digits read so far.
RECURSIVE ParseDigits(_, _)
ParseDigits(s, acc) ==
    IF s = <<>> \/ ~IsDigit(Head(s)) THEN acc
    ELSE ParseDigits(Tail(s), 10 * acc + DigitValue(Head(s)))

\* A parseInt that reads one digit only.
ParseIntFirstDigit(s) ==
    IF s = <<>> \/ ~IsDigit(Head(s)) THEN NaN ELSE DigitValue(Head(s))

\* parseInt(s): the integer the leading digits of s denote, NaN when s does
\* not start with a digit.
ParseInt(s) ==
    IF s = <<>> \/ ~IsDigit(Head(s)) THEN NaN ELSE ParseDigits(s, 0)

\* Array.prototype.includes.
Includes(arr, x) == \E i \in 1..Len(arr) : arr[i] = x

\* Array.prototype.reverse, on a copy.
Reverse(s) == [i \in 1..Len(s) |-> s[Len(s) + 1 - i]]

\* Greatest common divisor of two naturals, not both zero.
RECURSIVE GCD(_, _)
GCD(a, b) == IF b = 0 THEN a ELSE GCD(b, a % b)

\* The number n / d (d > 0), in lowest terms.
Quotient(n, d) ==
    LET g == GCD(n, d) IN [num |-> n \div g, den |-> d \div g]

\* ----------------------------------------------------------- remote data

Languages == {"en-US", "zh-TW"}

\* The genre ids the remote knows.
GenreIds == {1, 2, 12}

\* response.data.genres: the display name of a genre in a language.
GenreName(id, lang) ==
    IF lang = "en-US"
    THEN CASE id = 1 -> "Action" [] id = 2 -> "Drama" [] OTHER -> "Comedy"
    ELSE CASE id = 1 -> "DongZuo" [] id = 2 -> "JuQing" [] OTHER -> "XiJu"

\* One genre record of response.data.genres.
GenreRecord(id, lang) == [id |-> id, name |-> GenreName(id, lang)]

\* The movies the remote knows, by id. Movies 1 and 3 tie on the English
\* title and on the rating, movies 2 and 3 on the release date; movie 4 is
\* unrated (vote_average 0) and has an empty release date.
MovieIds == 1..4

\* A movie the remote returns without a release_date field.
UndatedIds == {5}

\* One movie record of response.data.results, in a language.
MovieRecord(id, lang) ==
    LET en == lang = "en-US" IN
    CASE id = 1 ->
           [id |-> 1, title |-> IF en THEN <<"Z", "e">> ELSE <<"U+96FB", "e">>,
            release_date |-> <<"2", "0">>, vote_average |-> 70,
            popularity |-> 5, genre_ids |-> <<1>>]
      [] id = 2 ->
           [id |-> 2, title |-> <<"A", "l">>,
            release_date |-> <<"1", "9">>, vote_average |-> 85,
            popularity |-> 9, genre_ids |-> <<1, 2>>]
      [] id = 3 ->
           [id |-> 3, title |-> IF en THEN <<"Z", "e">> ELSE <<"U+5F71">>,
            release_date |-> <<"1", "9">>, vote_average |-> 70,
            popularity |-> 5, genre_ids |-> <<1, 12>>]
      [] id = 5 ->
           [id |-> 5, title |-> <<"E", "l">>, vote_average |-> 60,
            popularity |-> 3, genre_ids |-> <<2>>]
      [] OTHER ->
           [id |-> 4, title |-> IF en THEN <<"a", "l">> ELSE <<"U+96FB">>,
            release_date |-> <<>>, vote_average |-> 0,
            popularity |-> 0, genre_ids |-> <<12>>]

\* The sequences of at most n distinct elements of S.
DistinctSeqs(S, n) ==
    UNION {{s \in [1..k -> S] : \A i, j \in 1..k : s[i] = s[j] => i = j} :
           k \in 0..n}

\* What the search box can hold in the model: the empty query, a query in
\* mixed case, a query in upper case.
Queries == {<<>>, <<"z", "E">>, <<"L">>}

\* -------------------------------------------------------- the view pipeline

\* The value of the "All Genres" option.
All == <<"a", "l", "l">>

SortKeys == {"title", "year", "rating"}

Directions == {"asc", "desc"}

\* filteredMovies: the movies of the selected genre.
FilteredMovies(movies, selGenre) ==
    IF selGenre = All
    THEN movies
    ELSE SelectSeq(movies,
                   LAMBDA movie : Includes(movie.genre_ids, ParseInt(selGenre)))

\* A comparator whose descending rating branch does not swap its operands.
CompareRatingNotSwapped(a, b, config) ==
    IF config.key = "title"
    THEN IF config.direction = "asc"
         THEN LocaleCompare(a.title, b.title)
         ELSE LocaleCompare(b.title, a.title)
    ELSE IF config.key = "year"
    THEN IF config.direction = "asc"
         THEN LocaleCompare(a.release_date, b.release_date)
         ELSE LocaleCompare(b.release_date, a.release_date)
    ELSE IF config.key = "rating"
    THEN a.vote_average - b.vote_average
    ELSE 0

\* String(undefined).
UndefinedString == <<"u", "n", "d", "e", "f", "i", "n", "e", "d">>

\* movie.release_date as the argument of localeCompare, which converts its
\* argument to a string.
ReleaseDateArgument(movie) ==
    IF "release_date" \in DOMAIN movie
    THEN movie.release_date ELSE UndefinedString

\* The comparator raises a TypeError: it calls localeCompare on the
\* release_date of a movie that has none.
Throws(a, b, config) ==
    /\ config.key = "year"
    /\ "release_date" \notin
           DOMAIN (IF config.direction = "asc" THEN a ELSE b)

\* The comparator handed to Array.prototype.sort: negative when a sorts
\* before b, positive when after, 0 when they tie. Defined where the
\* comparator does not raise.
Compare(a, b, config) ==
    IF config.key = "title"
    THEN IF config.direction = "asc"
         THEN LocaleCompare(a.title, b.title)
         ELSE LocaleCompare(b.title, a.title)
    ELSE IF config.key = "year"
    THEN IF config.direction = "asc"
         THEN LocaleCompare(a.release_date, ReleaseDateArgument(b))
         ELSE LocaleCompare(b.release_date, ReleaseDateArgument(a))
    ELSE IF config.key = "rating"
    THEN IF config.direction = "asc"
         THEN a.vote_average - b.vote_average
         ELSE b.vote_average - a.vote_average
    ELSE 0

\* What the sort learns about a and b from the call of the comparator that
\* does not raise: a sorts after b.
SortsAfter(a, b, config) ==
    IF ~Throws(a, b, config)
    THEN Compare(a, b, config) > 0
    ELSE Compare(b, a, config) < 0

\* A sort that puts x before the elements it ties with.
RECURSIVE InsertSortedTiesFirst(_, _, _)
InsertSortedTiesFirst(sorted, x, config) ==
    IF sorted = <<>> THEN <<x>>
    ELSE IF ~SortsAfter(x, sorted[Len(sorted)], config)
    THEN Append(InsertSortedTiesFirst(SubSeq(sorted, 1, Len(sorted) - 1),
                                      x, config),
                sorted[Len(sorted)])
    ELSE Append(sorted, x)

\* Array.prototype.sort is stable: x is placed behind every element already
\* sorted that does not sort after it.
RECURSIVE InsertSorted(_, _, _)
InsertSorted(sorted, x, config) ==
    IF sorted = <<>> THEN <<x>>
    ELSE IF SortsAfter(sorted[Len(sorted)], x, config)
    THEN Append(InsertSorted(SubSeq(sorted, 1, Len(sorted) - 1), x, config),
                sorted[Len(sorted)])
    ELSE Append(sorted, x)

\* [...arr].sort(comparator): a sorted copy.
RECURSIVE SortCopy(_, _)
SortCopy(arr, config) ==
    IF arr = <<>> THEN <<>>
    ELSE InsertSorted(SortCopy(SubSeq(arr, 1, Len(arr) - 1), config),
                      arr[Len(arr)], config)

\* sortedMovies.
SortedMovies(filtered, config) == SortCopy(filtered, config)

\* What the sortedMovies memo holds when the comparator raised.
TypeError == <<[error |-> "TypeError"]>>

\* The outcomes of [...arr].sort(comparator). The order in which sort hands
\* two elements to the comparator is implementation-defined, so with one
\* movie without release_date the sort raises when that movie is the
\* receiver of localeCompare in some call, and completes when it is the
\* argument in every call; two such movies are compared with each other and
\* one of them is the receiver.
SortOutcomes(arr, config) ==
    LET undated == {i \in 1..Len(arr) : "release_date" \notin DOMAIN arr[i]}
    IN  IF config.key # "year" \/ undated = {} \/ Len(arr) < 2
        THEN {SortCopy(arr, config)}
        ELSE IF Cardinality(undated) = 1
        THEN {TypeError, SortCopy(arr, config)}
        ELSE {TypeError}

\* A search that lowers the title and not the query.
SearchedMoviesQueryNotLowered(sorted, query) ==
    SelectSeq(sorted,
              LAMBDA movie : StrIncludes(ToLowerCase(movie.title), query))

\* searchedMovies: the movies whose lowered title includes the lowered query.
SearchedMovies(sorted, query) ==
    SelectSeq(sorted,
              LAMBDA movie :
                  StrIncludes(ToLowerCase(movie.title), ToLowerCase(query)))

\* reduce((sum, movie) => sum + movie.vote_average, 0).
RECURSIVE SumRatings(_)
SumRatings(arr) ==
    IF arr = <<>> THEN 0
    ELSE SumRatings(SubSeq(arr, 1, Len(arr) - 1)) + arr[Len(arr)].vote_average

\* The movies of one genre, as genreRatings selects them.
GenreMovies(genreId, movies) ==
    SelectSeq(movies, LAMBDA movie : Includes(movie.genre_ids, genreId))

\* The entry genreRatings computes for one genre before it filters.
GenreEntry(genre, movies) ==
    LET genreMovies == GenreMovies(genre.id, movies)
        avgRating   == IF Len(genreMovies) # 0
                       THEN Quotient(SumRatings(genreMovies), Len(genreMovies))
                       ELSE Quotient(0, 1)
    IN  [genre |-> genre.name, rating |-> avgRating]

\* A genreRatings that keeps every entry.
GenreRatingsUnfiltered(genres, movies) ==
    [i \in 1..Len(genres) |-> GenreEntry(genres[i], movies)]

\* genreRatings: one entry per genre, those with rating > 0 kept.
GenreRatings(genres, movies) ==
    SelectSeq([i \in 1..Len(genres) |-> GenreEntry(genres[i], movies)],
              LAMBDA d : d.rating.num > 0)

\* The value JavaScript yields for a property an object does not have.
Undefined == "undefined"

\* genreMap: the name of each genre by id; of two genres with one id the
\* later one wins.
GenreMap(genres) ==
    [id \in {genres[i].id : i \in 1..Len(genres)} |->
        LET last == CHOOSE i \in 1..Len(genres) :
                        /\ genres[i].id = id
                        /\ \A j \in 1..Len(genres) : genres[j].id = id => j <= i
        IN  genres[last].name]

\* obj[key].
Property(obj, key) == IF key \in DOMAIN obj THEN obj[key] ELSE Undefined

\* movie.genre_ids.map((id) => genreMap[id]).
GenreNames(movie, genreMap) ==
    [i \in 1..Len(movie.genre_ids) |-> Property(genreMap, movie.genre_ids[i])]

\* The pieces Array.prototype.join puts between the separators: undefined
\* is joined as the empty string.
JoinPieces(arr) ==
    [i \in 1..Len(arr) |-> IF arr[i] = Undefined THEN "" ELSE arr[i]]

\* ------------------------------------------------------------------ state

VARIABLES
    language,        \* useState: "en-US" or "zh-TW"
    selectedGenre,   \* useState: the value of the selected genre option
    sortConfig,      \* useState: [key, direction]
    searchQuery,     \* useState: the text of the search box
    queries,         \* the query cache: queries[kind][lang], one entry per queryKey
    remote,          \* what the remote API holds: movie ids and genre ids, in order
    filteredMovies,  \* useMemo
    sortedMovies,    \* useMemo
    searchedMovies,  \* useMemo
    genreRatings,    \* useMemo
    screen,          \* what App returned at its last render
    theme,           \* useState: "light" or "dark"
    storage,         \* localStorage: the items "theme" and "language"
    startup,         \* what localStorage.getItem returned at the last start
    mounted,         \* App is mounted (the resize listener is attached)
    chartWidth,      \* useState
    innerWidth,      \* window.innerWidth
    timeout,         \* ms until the timer of debounce runs, or NoTimer
    sinceCall,       \* ms since debouncedResize was last called, at most Wait
    sinceSet,        \* ms since setChartWidth was last called, at most Wait
    lastCall,        \* who called debouncedResize last: "mount" or "resize"
    calls,           \* the parity of the number of calls of debouncedResize
    sets,            \* the number of calls of setChartWidth, at most MaxSets
    setWhileUnmounted \* setChartWidth was called while App was not mounted

\* The data side of App: preferences, query cache, memoised lists, screen.
dataVars == <<language, selectedGenre, sortConfig, searchQuery, queries, remote,
              filteredMovies, sortedMovies, searchedMovies, genreRatings, screen>>

\* The theme and the stored preferences.
storeVars == <<theme, storage, startup>>

\* The chart width and the debounced resize handler.
resizeVars == <<mounted, chartWidth, innerWidth, timeout, sinceCall, sinceSet,
                lastCall, calls, sets, setWhileUnmounted>>

vars == <<dataVars, storeVars, resizeVars>>

Kinds == {"movies", "genres"}

\* No language: the entry holds no data, or no request is in flight.
None == "none"

\* A queryKey that was never observed. requestedFor is the language the
\* queryFn in flight was called with, dataFor the language of the data.
IdleQuery == [status |-> "idle", fetching |-> FALSE, hasData |-> FALSE,
              requestedFor |-> None, dataFor |-> None]

\* The entry of a query whose queryFn was just called for lang: a query
\* without data is "loading" (its error is cleared), one with data keeps its
\* status and its data.
StartFetch(q, lang) ==
    IF q.hasData
    THEN [q EXCEPT !.fetching = TRUE, !.requestedFor = lang]
    ELSE [status |-> "loading", fetching |-> TRUE, hasData |-> FALSE,
          requestedFor |-> lang, dataFor |-> None]

\* A queryKey that leaves the language out.
QueryKeyWithoutLanguage(kind, lang) == <<kind, "en-US">>

\* queryKey: [kind, language].
QueryKey(kind, lang) == <<kind, lang>>

\* The cache entry useQuery observes for kind when the language is lang.
Query(qs, kind, lang) == qs[QueryKey(kind, lang)[1]][QueryKey(kind, lang)[2]]

\* fetchMovies(language): response.data.results.
FetchMovies(lang, rem) ==
    [i \in 1..Len(rem.movies) |-> MovieRecord(rem.movies[i], lang)]

\* fetchGenres(language): response.data.genres.
FetchGenres(lang, rem) ==
    [i \in 1..Len(rem.genres) |-> GenreRecord(rem.genres[i], lang)]

\* data: movies = [] of useQuery(["movies", language]).
Movies(qs, lang, rem) ==
    IF Query(qs, "movies", lang).hasData
    THEN FetchMovies(Query(qs, "movies", lang).dataFor, rem)
    ELSE <<>>

\* data: genres = [] of useQuery(["genres", language]).
Genres(qs, lang, rem) ==
    IF Query(qs, "genres", lang).hasData
    THEN FetchGenres(Query(qs, "genres", lang).dataFor, rem)
    ELSE <<>>

\* isLoading of useQuery([kind, language]).
IsLoading(qs, kind, lang) == Query(qs, kind, lang).status = "loading"

\* error of useQuery([kind, language]) is set.
HasError(qs, kind, lang) == Query(qs, kind, lang).status = "error"

\* Options whose values are the positions of the genres in the list.
OptionsByIndex(genres) ==
    <<All>> \o [i \in 1..Len(genres) |-> NumberToString(i)]


\* The options GenreFilter hands to the select.
Options(genres) ==
    <<All>> \o [i \in 1..Len(genres) |-> NumberToString(genres[i].id)]

\* An App that tests the loading flags before the errors.
ScreenLoadingBeforeError(qs, lang, searched, ratings) ==
    IF IsLoading(qs, "movies", lang) \/ IsLoading(qs, "genres", lang)
    THEN [view |-> "loading", elements |-> {"loadingMessage"},
          table |-> <<>>, scatter |-> <<>>, bar |-> <<>>]
    ELSE IF HasError(qs, "movies", lang) \/ HasError(qs, "genres", lang)
    THEN [view |-> "error", elements |-> {"errorMessage"},
          table |-> <<>>, scatter |-> <<>>, bar |-> <<>>]
    ELSE [view |-> "dashboard",
          elements |-> {"genreFilter", "searchInput", "barChart", "scatterChart"}
                       \cup (IF Len(searched) = 0 THEN {"noMoviesFound"}
                                                  ELSE {"movieRows"}),
          table |-> searched, scatter |-> searched, bar |-> ratings]

\* An App that shows the loading view only while both queries are loading.
ScreenLoadingNeedsBoth(qs, lang, searched, ratings) ==
    IF HasError(qs, "movies", lang) \/ HasError(qs, "genres", lang)
    THEN [view |-> "error", elements |-> {"errorMessage"},
          table |-> <<>>, scatter |-> <<>>, bar |-> <<>>]
    ELSE IF IsLoading(qs, "movies", lang) /\ IsLoading(qs, "genres", lang)
    THEN [view |-> "loading", elements |-> {"loadingMessage"},
          table |-> <<>>, scatter |-> <<>>, bar |-> <<>>]
    ELSE [view |-> "dashboard",
          elements |-> {"genreFilter", "searchInput", "barChart", "scatterChart"}
                       \cup (IF Len(searched) = 0 THEN {"noMoviesFound"}
                                                  ELSE {"movieRows"}),
          table |-> searched, scatter |-> searched, bar |-> ratings]

\* What App returns: the error view, the loading view, or the dashboard with
\* the data each of its parts is given.
Screen(qs, lang, searched, ratings) ==
    IF HasError(qs, "movies", lang) \/ HasError(qs, "genres", lang)
    THEN [view |-> "error", elements |-> {"errorMessage"},
          table |-> <<>>, scatter |-> <<>>, bar |-> <<>>]
    ELSE IF IsLoading(qs, "movies", lang) \/ IsLoading(qs, "genres", lang)
    THEN [view |-> "loading", elements |-> {"loadingMessage"},
          table |-> <<>>, scatter |-> <<>>, bar |-> <<>>]
    ELSE [view |-> "dashboard",
          elements |-> {"genreFilter", "searchInput", "barChart", "scatterChart"}
                       \cup (IF Len(searched) = 0 THEN {"noMoviesFound"}
                                                  ELSE {"movieRows"}),
          table |-> searched, scatter |-> searched, bar |-> ratings]

\* A render whose genreRatings is computed from the filtered list.
RenderRatingsFromFiltered ==
    LET movies == Movies(queries', language', remote')
        genres == Genres(queries', language', remote')
    IN  /\ filteredMovies' = FilteredMovies(movies, selectedGenre')
        /\ sortedMovies' = SortedMovies(filteredMovies', sortConfig')
        /\ searchedMovies' = SearchedMovies(sortedMovies', searchQuery')
        /\ genreRatings' = GenreRatings(genres, filteredMovies')
        /\ screen' = Screen(queries', language', searchedMovies', genreRatings')

\* A render whose sortedMovies is computed from the sort preference of the
\* render before (sortConfig missing from the dependencies of the memo).
RenderStaleSortConfig ==
    LET movies == Movies(queries', language', remote')
        genres == Genres(queries', language', remote')
    IN  /\ filteredMovies' = FilteredMovies(movies, selectedGenre')
        /\ sortedMovies' = SortedMovies(filteredMovies', sortConfig)
        /\ searchedMovies' = SearchedMovies(sortedMovies', searchQuery')
        /\ genreRatings' = GenreRatings(genres, movies)
        /\ screen' = Screen(queries', language', searchedMovies', genreRatings')

\* A render that sorts filteredMovies itself instead of a copy of it.
RenderSortInPlace ==
    LET movies == Movies(queries', language', remote')
        genres == Genres(queries', language', remote')
    IN  /\ filteredMovies' =
               SortedMovies(FilteredMovies(movies, selectedGenre'), sortConfig')
        /\ sortedMovies' = filteredMovies'
        /\ searchedMovies' = SearchedMovies(sortedMovies', searchQuery')
        /\ genreRatings' = GenreRatings(genres, movies)
        /\ screen' = Screen(queries', language', searchedMovies', genreRatings')


\* One render of App after a state change: the memoised lists are recomputed
\* from the new state and the element tree is returned.
Render ==
    LET movies == Movies(queries', language', remote')
        genres == Genres(queries', language', remote')
    IN  /\ filteredMovies' = FilteredMovies(movies, selectedGenre')
        /\ sortedMovies' = SortedMovies(filteredMovies', sortConfig')
        /\ searchedMovies' = SearchedMovies(sortedMovies', searchQuery')
        /\ genreRatings' = GenreRatings(genres, movies)
        /\ screen' = Screen(queries', language', searchedMovies', genreRatings')

\* localStorage.getItem of a key that is absent.
Null == "null"

\* value || fallback.
OrDefault(value, fallback) == IF value \in {Null, ""} THEN fallback ELSE value

\* localStorage of a first visit: neither key is set.
NoStorage == [theme |-> Null, language |-> Null]

\* The delay handed to debounce, in ms.
Wait == 100

\* The debounce closure holds no pending timer.
NoTimer == -1

\* The ms the clock advances in one step.
Step == 25

\* The calls of setChartWidth that are counted.
MaxSets == 2

\* The longest time since a call that is told apart.
Longest == Wait + Step

\* The widths the window takes.
Widths == {375, 768, 1280}

Min(a, b) == IF a < b THEN a ELSE b

\* The first render and its effects: the stored theme and language are read
\* and written back.
StartStore(stored) ==
    /\ startup = stored
    /\ theme = OrDefault(stored.theme, "light")
    /\ language = OrDefault(stored.language, "en-US")
    /\ storage = [theme |-> theme, language |-> language]

\* The query cache after the first render in language lang: the queryFn of
\* both observed queries was called.
FirstQueries(lang) ==
    [k \in Kinds |->
        [l \in Languages |->
            IF l = QueryKey(k, lang)[2]
            THEN StartFetch(IdleQuery, lang) ELSE IdleQuery]]

\* The first render: the preferences take their defaults, both queries start.
StartData(rem) ==
    /\ selectedGenre = All
    /\ sortConfig = [key |-> "title", direction |-> "asc"]
    /\ searchQuery = <<>>
    /\ remote = rem
    /\ queries = FirstQueries(language)
    /\ filteredMovies = <<>>
    /\ sortedMovies = <<>>
    /\ searchedMovies = <<>>
    /\ genreRatings = <<>>
    /\ screen = Screen(queries, language, <<>>, <<>>)

\* The resize effect at mount: the listener is attached and debouncedResize
\* is called once.
StartResize(width) ==
    /\ mounted = TRUE
    /\ innerWidth = width
    /\ chartWidth = width
    /\ timeout = Wait
    /\ sinceCall = 0
    /\ sinceSet = Longest
    /\ lastCall = "mount"
    /\ calls = 0
    /\ sets = 0
    /\ setWhileUnmounted = FALSE

\* The program starts in a window of the given width, with localStorage
\* holding stored and the remote API holding rem.
Mount(stored, rem, width) ==
    /\ StartStore(stored)
    /\ StartData(rem)
    /\ StartResize(width)

\* localStorage of a first visit that will read lang.
FirstVisit(lang) == [theme |-> Null, language |-> lang]

\* Every remote content within the bounds.
Remotes ==
    [movies : DistinctSeqs(MovieIds, MaxMovies),
     genres : DistinctSeqs(GenreIds, MaxGenres)]

\* The remote contents the whole program is run against: two movies in two
\* genres, no movie at all, and three movies of which one is unrated and one
\* is in a genre the genre list lacks.
Scenarios ==
    {[movies |-> <<1, 2>>, genres |-> <<1, 2>>],
     [movies |-> <<>>, genres |-> <<1, 2>>],
     [movies |-> <<3, 4, 1>>, genres |-> <<12, 2>>]}

Init ==
    \E lang \in Languages, rem \in Scenarios, width \in {768} :
        Mount(FirstVisit(lang), rem, width)

\* The pipeline on every input within the bounds.
PipelineInit ==
    \E lang \in Languages, rem \in Remotes, width \in {768} :
        Mount(FirstVisit(lang), rem, width)

\* ---------------------------------------------------------------- actions

\* The queryFn of [kind, lang] resolves.
FetchSucceed(kind, lang) ==
    /\ queries[kind][lang].fetching
    /\ queries' = [queries EXCEPT ![kind][lang] =
                      [status |-> "success", fetching |-> FALSE,
                       hasData |-> TRUE, requestedFor |-> None,
                       dataFor |-> @.requestedFor]]
    /\ UNCHANGED <<language, selectedGenre, sortConfig, searchQuery, remote>>
    /\ UNCHANGED <<storeVars, resizeVars>>
    /\ Render

\* The queryFn of [kind, lang] rejects.
FetchFail(kind, lang) ==
    /\ queries[kind][lang].fetching
    /\ queries' = [queries EXCEPT ![kind][lang] =
                      [@ EXCEPT !.status = "error", !.fetching = FALSE,
                                !.requestedFor = None]]
    /\ UNCHANGED <<language, selectedGenre, sortConfig, searchQuery, remote>>
    /\ UNCHANGED <<storeVars, resizeVars>>
    /\ Render

\* The query library fetches the observed query again (it is past staleTime
\* or failed, and the window regains focus or the network returns).
Refetch(kind) ==
    /\ ~Query(queries, kind, language).fetching
    /\ queries' = [queries EXCEPT ![kind][QueryKey(kind, language)[2]] =
                      StartFetch(@, language)]
    /\ UNCHANGED <<language, selectedGenre, sortConfig, searchQuery, remote>>
    /\ UNCHANGED <<storeVars, resizeVars>>
    /\ Render

\* The language button: the other language's queries are observed, and
\* fetched unless the cache holds their data.
ToggleLanguage ==
    /\ screen.view = "dashboard"
    /\ language' = IF language = "en-US" THEN "zh-TW" ELSE "en-US"
    /\ queries' = [k \in Kinds |->
                     [queries[k] EXCEPT ![QueryKey(k, language')[2]] =
                         IF @.hasData \/ @.fetching
                         THEN @ ELSE StartFetch(@, language')]]
    /\ storage' = [storage EXCEPT !.language = language']
    /\ UNCHANGED <<selectedGenre, sortConfig, searchQuery, remote>>
    /\ UNCHANGED <<theme, startup, resizeVars>>
    /\ Render

\* A theme button whose new theme is not written to localStorage.
ToggleThemeNotStored ==
    /\ screen.view = "dashboard"
    /\ theme' = IF theme = "light" THEN "dark" ELSE "light"
    /\ UNCHANGED <<dataVars, storage, startup, resizeVars>>

\* The theme button, and the theme effect that follows the render.
ToggleTheme ==
    /\ screen.view = "dashboard"
    /\ theme' = IF theme = "light" THEN "dark" ELSE "light"
    /\ storage' = [storage EXCEPT !.theme = theme']
    /\ UNCHANGED <<dataVars, startup, resizeVars>>

\* The page is loaded again: every state but localStorage is lost, and the
\* program starts from what localStorage holds.
Restart ==
    /\ startup' = storage
    /\ theme' = OrDefault(storage.theme, "light")
    /\ language' = OrDefault(storage.language, "en-US")
    /\ storage' = [theme |-> theme', language |-> language']
    /\ selectedGenre' = All
    /\ sortConfig' = [key |-> "title", direction |-> "asc"]
    /\ searchQuery' = <<>>
    /\ queries' = FirstQueries(language')
    /\ mounted' = TRUE
    /\ chartWidth' = innerWidth
    /\ timeout' = Wait
    /\ sinceCall' = 0
    /\ sinceSet' = Longest
    /\ lastCall' = "mount"
    /\ calls' = 0
    /\ sets' = 0
    /\ setWhileUnmounted' = FALSE
    /\ UNCHANGED <<remote, innerWidth>>
    /\ Render

\* A handler that leaves a pending timer alone instead of replacing it.
ResizeKeepsTimer(width) ==
    /\ innerWidth' = width
    /\ IF mounted
       THEN /\ timeout' = IF timeout = NoTimer THEN Wait ELSE timeout
            /\ sinceCall' = 0
            /\ lastCall' = "resize"
            /\ calls' = 1 - calls
       ELSE UNCHANGED <<timeout, sinceCall, lastCall, calls>>
    /\ UNCHANGED <<mounted, chartWidth, sinceSet, sets, setWhileUnmounted>>
    /\ UNCHANGED <<dataVars, storeVars>>

\* The window is resized to width: while the listener is attached,
\* debouncedResize clears the pending timer and sets a new one.
Resize(width) ==
    /\ innerWidth' = width
    /\ IF mounted
       THEN /\ timeout' = Wait
            /\ sinceCall' = 0
            /\ lastCall' = "resize"
            /\ calls' = 1 - calls
       ELSE UNCHANGED <<timeout, sinceCall, lastCall, calls>>
    /\ UNCHANGED <<mounted, chartWidth, sinceSet, sets, setWhileUnmounted>>
    /\ UNCHANGED <<dataVars, storeVars>>

\* Time passes, up to the moment the pending timer is due: a timer that is
\* due runs before more time passes.
Tick ==
    /\ timeout # 0
    /\ LET d == IF timeout = NoTimer THEN Step ELSE Min(Step, timeout)
       IN  /\ timeout' = IF timeout = NoTimer THEN NoTimer ELSE timeout - d
           /\ sinceCall' = Min(Longest, sinceCall + d)
           /\ sinceSet' = Min(Longest, sinceSet + d)
    /\ UNCHANGED <<mounted, chartWidth, innerWidth, lastCall, calls, sets,
                   setWhileUnmounted>>
    /\ UNCHANGED <<dataVars, storeVars>>

\* A timer callback that sets the width the chart already has.
TimerFireStaleWidth ==
    /\ timeout = 0
    /\ timeout' = NoTimer
    /\ chartWidth' = chartWidth
    /\ sinceSet' = 0
    /\ sets' = Min(MaxSets, sets + 1)
    /\ setWhileUnmounted' = (setWhileUnmounted \/ ~mounted)
    /\ UNCHANGED <<mounted, innerWidth, sinceCall, lastCall, calls>>
    /\ UNCHANGED <<dataVars, storeVars>>

\* The timer of debounce is due: setChartWidth(window.innerWidth) is called.
\* React drops the update of a component that is not mounted.
TimerFire ==
    /\ timeout = 0
    /\ timeout' = NoTimer
    /\ chartWidth' = IF mounted THEN innerWidth ELSE chartWidth
    /\ sinceSet' = 0
    /\ sets' = Min(MaxSets, sets + 1)
    /\ setWhileUnmounted' = (setWhileUnmounted \/ ~mounted)
    /\ UNCHANGED <<mounted, innerWidth, sinceCall, lastCall, calls>>
    /\ UNCHANGED <<dataVars, storeVars>>

\* App unmounts: the cleanup of the resize effect removes the listener. It
\* does not clear the timer of debounce.
Unmount ==
    /\ mounted
    /\ mounted' = FALSE
    /\ UNCHANGED <<chartWidth, innerWidth, timeout, sinceCall, sinceSet,
                   lastCall, calls, sets, setWhileUnmounted>>
    /\ UNCHANGED <<dataVars, storeVars>>

\* onGenreChange(option.value) for an option of the select.
SetSelectedGenre(value) ==
    /\ screen.view = "dashboard"
    /\ selectedGenre' = value
    /\ UNCHANGED <<language, sortConfig, searchQuery, queries, remote>>
    /\ UNCHANGED <<storeVars, resizeVars>>
    /\ Render

\* onChange of the search box.
SetSearchQuery(value) ==
    /\ screen.view = "dashboard"
    /\ searchQuery' = value
    /\ UNCHANGED <<language, selectedGenre, sortConfig, queries, remote>>
    /\ UNCHANGED <<storeVars, resizeVars>>
    /\ Render

\* A sortMovies that flips the direction whatever the key.
SortMoviesAlwaysFlips(key) ==
    /\ screen.view = "dashboard"
    /\ LET direction == IF sortConfig.direction = "asc" THEN "desc" ELSE "asc"
       IN  sortConfig' = [key |-> key, direction |-> direction]
    /\ UNCHANGED <<language, selectedGenre, searchQuery, queries, remote>>
    /\ UNCHANGED <<storeVars, resizeVars>>
    /\ Render

\* sortMovies(key): a click on a column header.
SortMovies(key) ==
    /\ screen.view = "dashboard"
    /\ LET direction == IF sortConfig.key = key /\ sortConfig.direction = "asc"
                        THEN "desc" ELSE "asc"
       IN  sortConfig' = [key |-> key, direction |-> direction]
    /\ UNCHANGED <<language, selectedGenre, searchQuery, queries, remote>>
    /\ UNCHANGED <<storeVars, resizeVars>>
    /\ Render

\* The sortedMovies memo computed for a sort preference, on its own.
SortBy(config) ==
    /\ Query(queries, "movies", language).hasData
    /\ sortConfig' = config
    /\ sortedMovies' \in SortOutcomes(filteredMovies, config)
    /\ UNCHANGED <<language, selectedGenre, searchQuery, queries, remote,
                   filteredMovies, searchedMovies, genreRatings, screen>>
    /\ UNCHANGED <<storeVars, resizeVars>>

SelectGenre ==
    \E i \in 1..Len(Options(Genres(queries, language, remote))) :
        SetSelectedGenre(Options(Genres(queries, language, remote))[i])

\* The first fetch of each query completes and the user sets preferences.
PipelineNext ==
    \/ \E kind \in Kinds : FetchSucceed(kind, language)
    \/ \E kind \in Kinds : FetchFail(kind, language)
    \/ SelectGenre
    \/ \E value \in Queries : SetSearchQuery(value)
    \/ \E key \in SortKeys : SortMovies(key)

\* The whole program: fetches of either language complete, the library
\* fetches again, the user changes the language and the preferences.
Next ==
    \/ \E kind \in Kinds, lang \in Languages : FetchSucceed(kind, lang)
    \/ \E kind \in Kinds, lang \in Languages : FetchFail(kind, lang)
    \/ \E kind \in Kinds : Refetch(kind)
    \/ ToggleLanguage
    \/ SelectGenre
    \/ \E value \in Queries : SetSearchQuery(value)
    \/ \E key \in SortKeys : SortMovies(key)

\* The sort stage on its own, on every movie list within the bounds, movies
\* without release_date included: the movies arrive and the list is sorted.
YearSortInit ==
    \E movies \in DistinctSeqs(MovieIds \cup UndatedIds, MaxMovies),
       width \in {768} :
        Mount(FirstVisit("en-US"), [movies |-> movies, genres |-> <<>>], width)

YearSortNext ==
    \/ FetchSucceed("movies", language)
    \/ \E key \in SortKeys, direction \in Directions :
           SortBy([key |-> key, direction |-> direction])

YearSortSpec == YearSortInit /\ [][YearSortNext]_vars

\* The stored preferences: a first visit, the fetches complete, the theme
\* and the language are toggled, the page is loaded again.
PersistInit ==
    \E rem \in Scenarios, width \in {768} : Mount(NoStorage, rem, width)

PersistNext ==
    \/ \E kind \in Kinds, lang \in Languages : FetchSucceed(kind, lang)
    \/ ToggleTheme
    \/ ToggleLanguage
    \/ Restart

PersistSpec == PersistInit /\ [][PersistNext]_vars

\* The chart width: the window is resized at any time, time passes, the
\* timer of debounce runs, App unmounts.
ResizeInit ==
    \E width \in Widths :
        Mount(NoStorage, [movies |-> <<1, 2>>, genres |-> <<1, 2>>], width)

ResizeNext ==
    \/ \E width \in Widths : Resize(width)
    \/ Tick
    \/ TimerFire
    \/ Unmount

ResizeSpec == ResizeInit /\ [][ResizeNext]_vars

\* The same, with an event loop that lets time pass and runs a timer that
\* is due.
FairResizeSpec ==
    /\ ResizeInit
    /\ [][ResizeNext]_vars
    /\ WF_vars(Tick)
    /\ WF_vars(TimerFire)

\* The whole program against the scenarios.
Spec == Init /\ [][Next]_vars

\* The view pipeline against every remote content within the bounds.
PipelineSpec == PipelineInit /\ [][PipelineNext]_vars

\* ------------------------------------------------- what the claims speak of

\* The movie collection of the current language (the full, unfiltered list).
CurMovies == Movies(queries, language, remote)

\* The genre collection of the current language.
CurGenres == Genres(queries, language, remote)

Range(s) == {s[i] : i \in 1..Len(s)}

\* The first position of x in s.
PositionOf(s, x) == CHOOSE i \in 1..Len(s) : s[i] = x /\ \A j \in 1..(i - 1) : s[j] # x

\* sub holds exactly the elements of full that Keep accepts, once each, in
\* the order they have in full (the elements of full are distinct).
IsOrderedSelection(sub, full, Keep(_)) ==
    /\ \A i \in 1..Len(sub) : sub[i] \in Range(full) /\ Keep(sub[i])
    /\ \A j \in 1..Len(full) : Keep(full[j]) => full[j] \in Range(sub)
    /\ \A i, j \in 1..Len(sub) :
          i < j => PositionOf(full, sub[i]) < PositionOf(full, sub[j])

Asc(k) == [key |-> k, direction |-> "asc"]

Desc(k) == [key |-> k, direction |-> "desc"]

\* Two movies of arr tie on key k.
HasTies(arr, k) ==
    \E i, j \in 1..Len(arr) : i # j /\ Compare(arr[i], arr[j], Asc(k)) = 0

\* ------------------------------------------------------------------ claims

\* C1 as stated: for every movie list, ties included, and every sort key the
\* list sorted descending is the element-by-element reverse of the list
\* sorted ascending.
C1_DescIsReverseOfAsc ==
    \A k \in SortKeys :
        SortedMovies(filteredMovies, Desc(k))
            = Reverse(SortedMovies(filteredMovies, Asc(k)))

\* C1 amended: for every movie list and sort key, the list sorted descending
\* is the reverse of the list sorted ascending when no two movies tie on the
\* key; when movies tie, the two lists agree position by position up to
\* movies that tie on the key. The list on display obeys the same.
C1_DescIsReverseOfAscUpToTies ==
    /\ \A k \in SortKeys :
          LET asc  == SortedMovies(filteredMovies, Asc(k))
              desc == SortedMovies(filteredMovies, Desc(k))
          IN  /\ Len(desc) = Len(asc)
              /\ \A i \in 1..Len(desc) :
                    Compare(desc[i], Reverse(asc)[i], Asc(k)) = 0
              /\ ~HasTies(filteredMovies, k) => desc = Reverse(asc)
    /\ (sortConfig.direction = "desc" /\ ~HasTies(filteredMovies, sortConfig.key))
          => sortedMovies
                = Reverse(SortedMovies(filteredMovies, Asc(sortConfig.key)))

\* C1 witness: a list of three movies without ties on the rating is on
\* display sorted by rating, descending, in an order that is not the input's.
C1_Witness ==
    /\ screen.view = "dashboard"
    /\ sortConfig = Desc("rating")
    /\ Len(filteredMovies) = 3
    /\ ~HasTies(filteredMovies, "rating")
    /\ sortedMovies # filteredMovies
    /\ sortedMovies = Reverse(SortedMovies(filteredMovies, Asc("rating")))

\* The sum of the ratings of the movies at the positions in S.
RECURSIVE SumAt(_, _)
SumAt(S, movies) ==
    IF S = {} THEN 0
    ELSE LET i == CHOOSE x \in S : TRUE
         IN  movies[i].vote_average + SumAt(S \ {i}, movies)

\* The positions of the movies that reference genre id.
Referencing(id, movies) ==
    {i \in 1..Len(movies) : id \in Range(movies[i].genre_ids)}

\* C2: every genre of the genre list that at least one movie of the full
\* list references, whatever the ratings in 0..10 (0 included), has an entry
\* in genreRatings whose rating is the mean of those movies' ratings.
C2_ReferencedGenreHasMean ==
    \A g \in Range(CurGenres) :
        LET at == Referencing(g.id, CurMovies)
        IN  at # {} =>
              \E i \in 1..Len(genreRatings) :
                  /\ genreRatings[i].genre = g.name
                  /\ genreRatings[i].rating.num * Cardinality(at)
                        = SumAt(at, CurMovies) * genreRatings[i].rating.den

\* C3: genreRatings holds no entry for a genre that no movie of the full list
\* references, and its entries are in the order of the genre list.
C3_NoUnreferencedGenreInOrder ==
    LET names   == [i \in 1..Len(CurGenres) |-> CurGenres[i].name]
        entries == [i \in 1..Len(genreRatings) |-> genreRatings[i].genre]
    IN  /\ \A i \in 1..Len(genreRatings) :
              \E g \in Range(CurGenres) :
                  /\ g.name = genreRatings[i].genre
                  /\ Referencing(g.id, CurMovies) # {}
        /\ IsOrderedSelection(entries, names, LAMBDA n : n \in Range(entries))

\* C3 witness: of three genres the second has no movie and the other two
\* have entries, in the order of the genre list.
C3_Witness ==
    /\ screen.view = "dashboard"
    /\ Len(CurGenres) = 3
    /\ Referencing(CurGenres[2].id, CurMovies) = {}
    /\ Len(genreRatings) = 2
    /\ genreRatings[1].genre = CurGenres[1].name
    /\ genreRatings[2].genre = CurGenres[3].name
    /\ CurGenres[1].id > CurGenres[3].id

\* C4: while the fetched movie and genre collections stay the same, no change
\* of the genre filter, the search query or the sort preference changes
\* genreRatings, and genreRatings is the aggregate over the full movie list.
C4_GenreRatingsIndependentOfPreferences ==
    /\ [](genreRatings = GenreRatings(CurGenres, CurMovies))
    /\ [][(CurMovies' = CurMovies /\ CurGenres' = CurGenres)
             => genreRatings' = genreRatings]_vars

\* C4 witness: a genre and a query are selected, and the aggregate over the
\* filtered list and the one over the searched list both differ from
\* genreRatings.
C4_Witness ==
    /\ screen.view = "dashboard"
    /\ selectedGenre # All
    /\ searchQuery # <<>>
    /\ sortConfig # Asc("title")
    /\ genreRatings # <<>>
    /\ GenreRatings(CurGenres, filteredMovies) # genreRatings
    /\ GenreRatings(CurGenres, searchedMovies) # GenreRatings(CurGenres, filteredMovies)
    /\ GenreRatings(CurGenres, searchedMovies) # genreRatings

\* C5: with "all" selected filteredMovies is the movie list; with the string
\* form of a genre id selected it holds exactly the movies whose genre_ids
\* contain that id, in the order of the movie list.
C5_FilterStage ==
    /\ selectedGenre = All => filteredMovies = CurMovies
    /\ \A g \in GenreIds :
          selectedGenre = NumberToString(g) =>
              IsOrderedSelection(filteredMovies, CurMovies,
                                 LAMBDA m : g \in Range(m.genre_ids))

\* C5 witness: genre 12 is selected and some, not all, movies are kept.
C5_Witness ==
    /\ screen.view = "dashboard"
    /\ selectedGenre = <<"1", "2">>
    /\ Len(filteredMovies) = 2
    /\ Len(CurMovies) = 3
    /\ \E i \in 1..3 : CurMovies[i].genre_ids = <<1>>

\* q occurs in title as a contiguous substring when the case of the letters
\* is ignored.
ContainsIgnoringCase(title, q) ==
    \E off \in 0..(Len(title) - Len(q)) :
        \A k \in 1..Len(q) : Primary(title[off + k]) = Primary(q[k])

\* C6: searchedMovies holds exactly the movies of sortedMovies whose title
\* contains the query as a substring, case ignored, in the order of
\* sortedMovies, and is sortedMovies when the query is empty.
C6_SearchStage ==
    /\ IsOrderedSelection(searchedMovies, sortedMovies,
                          LAMBDA m : ContainsIgnoringCase(m.title, searchQuery))
    /\ searchQuery = <<>> => searchedMovies = sortedMovies

\* C6 witness: a query in mixed case keeps two of three movies.
C6_Witness ==
    /\ screen.view = "dashboard"
    /\ searchQuery = <<"z", "E">>
    /\ Len(sortedMovies) = 3
    /\ Len(searchedMovies) = 2

\* C7: sortConfig starts as (title, asc) and always holds one key and one
\* direction; a click on the active key flips the direction, a click on
\* another key sets that key, ascending.
C7_SortPreferenceTransitions ==
    /\ sortConfig = Asc("title")
    /\ [](sortConfig \in [key : SortKeys, direction : Directions])
    /\ [][\A k \in SortKeys :
             SortMovies(k) =>
                 /\ sortConfig'.key = k
                 /\ sortConfig.key = k =>
                       sortConfig'.direction # sortConfig.direction
                 /\ sortConfig.key # k => sortConfig'.direction = "asc"]_vars

\* C7 witness: the rating header was clicked twice.
C7_Witness == screen.view = "dashboard" /\ sortConfig = Desc("rating")

\* C8: on the dashboard the table shows search(sort(filter(movies))), no
\* adjacent pair of it is out of order under the active sort preference, and
\* the scatter chart is given the same list.
C8_DisplayedListComposedAndOrdered ==
    screen.view = "dashboard" =>
        /\ screen.table
              = SearchedMovies(
                    SortedMovies(FilteredMovies(CurMovies, selectedGenre),
                                 sortConfig),
                    searchQuery)
        /\ \A i \in 1..(Len(screen.table) - 1) :
              Compare(screen.table[i], screen.table[i + 1], sortConfig) <= 0
        /\ screen.scatter = screen.table

\* C8 witness: a genre, a query and a descending sort are active and the
\* two movies on display are in the opposite of their input order.
C8_Witness ==
    /\ screen.view = "dashboard"
    /\ selectedGenre # All
    /\ searchQuery # <<>>
    /\ sortConfig.direction = "desc"
    /\ Len(screen.table) = 2
    /\ Len(filteredMovies) = 3
    /\ Compare(screen.table[1], screen.table[2], sortConfig) < 0
    /\ PositionOf(CurMovies, screen.table[1]) > PositionOf(CurMovies, screen.table[2])

\* C9: while the movies query or the genres query of the current language is
\* failed, App returns the error view and hands no data to the table, the
\* cards or the charts, whatever the state of the other query; in the error
\* view no handler of App changes the state, and a step that leaves the error
\* view is a step of the query library (a refetch starts or resolves).
C9_FetchFailureShowsOnlyError ==
    /\ []((HasError(queries, "movies", language)
              \/ HasError(queries, "genres", language))
            => /\ screen.view = "error"
               /\ screen.elements = {"errorMessage"}
               /\ screen.table = <<>>
               /\ screen.scatter = <<>>
               /\ screen.bar = <<>>)
    /\ [][screen.view = "error"
            => /\ UNCHANGED <<language, selectedGenre, sortConfig, searchQuery>>
               /\ screen'.view # "error"
                     => \E kind \in Kinds :
                            Refetch(kind) \/ FetchSucceed(kind, language)]_vars

\* C9 witness: the genres query failed while the movies query is in flight.
C9_Witness ==
    /\ HasError(queries, "genres", language)
    /\ IsLoading(queries, "movies", language)
    /\ queries["movies"][language].fetching
    /\ screen.view = "error"

\* Both queries of the current language have succeeded.
BothSucceeded ==
    /\ queries["movies"][language].status = "success"
    /\ queries["genres"][language].status = "success"

\* C10: exactly one of the error, loading and dashboard views is returned;
\* while a query of the current language is loading (in flight, no data yet)
\* and none is failed it is the loading view, without "No movies found"; the
\* dashboard is returned only when both queries have succeeded; and "No
\* movies found" is shown exactly when both have succeeded and the composed
\* list is empty.
C10_LoadingFailedLoadedExclusive ==
    /\ Cardinality(screen.elements
                      \cap {"errorMessage", "loadingMessage", "genreFilter"}) = 1
    /\ ("errorMessage" \in screen.elements) = (screen.view = "error")
    /\ ("loadingMessage" \in screen.elements) = (screen.view = "loading")
    /\ ("genreFilter" \in screen.elements) = (screen.view = "dashboard")
    /\ ((IsLoading(queries, "movies", language)
            \/ IsLoading(queries, "genres", language))
          /\ ~HasError(queries, "movies", language)
          /\ ~HasError(queries, "genres", language))
          => /\ screen.view = "loading"
             /\ "noMoviesFound" \notin screen.elements
    /\ screen.view = "dashboard" => BothSucceeded
    /\ ("noMoviesFound" \in screen.elements)
          = (/\ BothSucceeded
             /\ SearchedMovies(
                    SortedMovies(FilteredMovies(CurMovies, selectedGenre),
                                 sortConfig),
                    searchQuery) = <<>>)

\* C10 witness: the genres query has succeeded, the movies query is still in
\* flight, the movie list is the default empty list and the loading view is
\* shown.
C10_Witness ==
    /\ queries["genres"][language].status = "success"
    /\ IsLoading(queries, "movies", language)
    /\ searchedMovies = <<>>
    /\ screen.view = "loading"
    /\ remote.movies # <<>>

\* C11: whenever the dashboard is shown, for every displayed movie and every
\* id of its genre_ids that is not a key of the genre index, the lookup that
\* renders the genre names yields an explicit "unknown" placeholder: a value
\* that is not undefined and is not rendered as the empty string.
C11_UnknownGenreHasPlaceholder ==
    screen.view = "dashboard" =>
        \A m \in 1..Len(screen.table) :
            LET movie == screen.table[m]
                names == GenreNames(movie, GenreMap(CurGenres))
            IN  \A i \in 1..Len(movie.genre_ids) :
                    movie.genre_ids[i] \notin DOMAIN GenreMap(CurGenres)
                        => /\ names[i] # Undefined
                           /\ JoinPieces(names)[i] # ""

\* The movie has no release date: the field is absent or holds "".
Dateless(movie) ==
    "release_date" \notin DOMAIN movie \/ movie.release_date = <<>>

\* C12: sorting any movie list by year in ascending order completes without
\* raising, and in the sorted list every movie whose release date is missing
\* or empty comes before every movie with a non-empty release date.
C12_YearSortTotalDatelessFirst ==
    (/\ Query(queries, "movies", language).hasData
     /\ sortConfig = [key |-> "year", direction |-> "asc"])
        => /\ sortedMovies # TypeError
           /\ \A i, j \in 1..Len(sortedMovies) :
                  (Dateless(sortedMovies[j]) /\ ~Dateless(sortedMovies[i]))
                      => j < i

\* C15: sortedMovies holds the movies of filteredMovies, and two movies that
\* compare equal on the active key and direction appear in sortedMovies in
\* the relative order they have in filteredMovies.
C15_SortIsStable ==
    /\ Len(sortedMovies) = Len(filteredMovies)
    /\ Range(sortedMovies) = Range(filteredMovies)
    /\ \A i, j \in 1..Len(filteredMovies) :
           (i < j /\ Compare(filteredMovies[i], filteredMovies[j], sortConfig) = 0)
               => PositionOf(sortedMovies, filteredMovies[i])
                      < PositionOf(sortedMovies, filteredMovies[j])

\* C15 witness: the list is sorted by rating in descending order, two movies
\* tie on the rating and a third movie that was fetched between them is
\* sorted ahead of both.
C15_Witness ==
    /\ screen.view = "dashboard"
    /\ sortConfig = Desc("rating")
    /\ Len(filteredMovies) = 3
    /\ Compare(filteredMovies[1], filteredMovies[3], sortConfig) = 0
    /\ sortedMovies = <<filteredMovies[2], filteredMovies[1], filteredMovies[3]>>

\* C16: sorting sortedMovies again with the same key and direction returns
\* it unchanged, and filteredMovies is left as the filter stage produced it:
\* the sort works on a copy.
C16_SortIdempotentInputIntact ==
    /\ SortedMovies(sortedMovies, sortConfig) = sortedMovies
    /\ filteredMovies = FilteredMovies(CurMovies, selectedGenre)

\* C16 witness: a header was clicked, the sorted list has the movies of
\* filteredMovies in another order, and two of them tie on the key.
C16_Witness ==
    /\ screen.view = "dashboard"
    /\ sortConfig # Asc("title")
    /\ Len(filteredMovies) >= 2
    /\ sortedMovies # filteredMovies
    /\ HasTies(filteredMovies, sortConfig.key)

\* Both queries of the current language hold data.
BothHaveData ==
    \A kind \in Kinds : Query(queries, kind, language).hasData

\* C17: whenever the dashboard is shown, both queries in use hold data that
\* was fetched for the current language, and the rows and the genre names on
\* screen are those the remote returns for the current language, whatever
\* arrived for the other language in the meantime; while the queries of the
\* current language do not both hold data the dashboard is not shown, and
\* the loading view is shown unless a fetch failed.
C17_DashboardDataIsOfCurrentLanguage ==
    /\ screen.view = "dashboard" =>
          /\ BothHaveData
          /\ \A kind \in Kinds :
                 Query(queries, kind, language).dataFor = language
          /\ Range(screen.table) \subseteq Range(FetchMovies(language, remote))
          /\ \A i \in 1..Len(screen.bar) :
                 \E id \in GenreIds :
                     screen.bar[i].genre = GenreName(id, language)
    /\ ~BothHaveData =>
          /\ screen.view # "dashboard"
          /\ (~HasError(queries, "movies", language)
                /\ ~HasError(queries, "genres", language))
                 => screen.view = "loading"

\* C17 witness: the language was toggled while a request for the previous
\* language was in flight; the dashboard of the new language is shown with
\* rows and genre ratings, and the late response is still to arrive.
C17_Witness ==
    /\ screen.view = "dashboard"
    /\ language # startup.language
    /\ queries["movies"][startup.language].fetching
    /\ queries["movies"][startup.language].hasData
    /\ screen.table # <<>>
    /\ screen.bar # <<>>

C14_PreferencesPersist ==
    /\ (startup = NoStorage /\ theme = "light" /\ language = "en-US")
    /\ [](storage = [theme |-> theme, language |-> language])
    /\ [][Restart => /\ startup' = storage
                     /\ theme' = theme
                     /\ language' = language]_vars
    /\ [][~Restart => /\ startup' = startup
                      /\ theme' # theme
                           => theme' = (IF theme = "light" THEN "dark"
                                                           ELSE "light")
                      /\ language' # language
                           => language' = (IF language = "en-US"
                                           THEN "zh-TW" ELSE "en-US")]_vars

\* C14 witness: the theme and the language were toggled to "dark" and
\* "zh-TW", the page was loaded again and started with them, and both were
\* toggled back and stored.
C14_Witness ==
    /\ startup = [theme |-> "dark", language |-> "zh-TW"]
    /\ theme = "light"
    /\ language = "en-US"
    /\ storage = [theme |-> "light", language |-> "en-US"]
    /\ screen.view = "dashboard"

\* C13, as stated: whenever setChartWidth is executed by the debounced
\* handler, at least Wait ms have passed since its execution before, and the
\* execution comes exactly Wait ms after a resize event, the most recent one
\* that preceded it.
C13_ExecutionFollowsResizeEvent ==
    [][TimerFire => /\ sinceSet >= Wait
                    /\ sinceCall = Wait
                    /\ lastCall = "resize"]_vars

\* C13, amended: whenever setChartWidth is executed by the debounced
\* handler, at least Wait ms have passed since its execution before, and the
\* execution comes exactly Wait ms after the most recent call of the
\* debounced handler, be it for a resize event or the call at mount.
C13_ExecutionFollowsLastCall ==
    [][TimerFire => /\ sinceSet >= Wait
                    /\ sinceCall = Wait]_vars

\* C13 witness: setChartWidth was just executed for the second time at
\* least, for a resize event that changed the width, Wait ms after that
\* event, while a resize event in between had been superseded.
C13_Witness ==
    /\ sets = MaxSets
    /\ sinceSet = 0
    /\ sinceCall = Wait
    /\ lastCall = "resize"
    /\ calls = 0
    /\ timeout = NoTimer
    /\ mounted

\* C19: while App is mounted, a call of the debounced handler that no later
\* call supersedes leads to an execution of setChartWidth after which
\* chartWidth is the window's inner width and no timer is pending, Wait ms
\* after the call; and an execution happens Wait ms after the last call,
\* consumes the timer and sets chartWidth to the inner width.
C19_ResizeEventuallyReflected ==
    /\ \A width \in Widths, parity \in {0, 1} :
           (mounted /\ timeout # NoTimer /\ innerWidth = width /\ calls = parity)
               ~> \/ ~mounted
                  \/ calls # parity
                  \/ /\ chartWidth = width
                     /\ timeout = NoTimer
                     /\ sinceSet = 0
                     /\ sinceCall = Wait
    /\ [][(mounted /\ TimerFire) => /\ sinceCall = Wait
                                    /\ timeout' = NoTimer
                                    /\ chartWidth' = innerWidth]_vars
    /\ [][chartWidth' # chartWidth => TimerFire]_vars

\* C19 witness: resize events have stopped, the last one changed the width,
\* and setChartWidth has run for it: chartWidth is the new inner width and no
\* timer is pending.
C19_Witness ==
    /\ mounted
    /\ lastCall = "resize"
    /\ timeout = NoTimer
    /\ sinceCall = Longest
    /\ sets = 1
    /\ chartWidth = innerWidth
    /\ \E width \in Widths : width < chartWidth

\* C20: setChartWidth is never called while App is not mounted.
C20_NoSetAfterUnmount == ~setWhileUnmounted

=============================================================================
